---- MODULE Spec2Model ----
(***************************************************************************)
(* A model of the kRPC launch scripts: the hill_climb optimiser            *)
(* (src/hillclimb.py) and the auto_stage helper (src/krpcutils.py,         *)
(* src/launcher.py).                                                       *)
(*                                                                         *)
(* Numbers.  Parameter values are fixed-point numbers counted in           *)
(* thousandths, so that the smallest step 0.001 is the integer 1 and the   *)
(* arithmetic of the search is exact.  A score is an exact integer kept    *)
(* as a pair <<h, l>> standing for h * Base + l with 0 <= l < Base, so     *)
(* that squares of distances of a few hundred units do not leave the       *)
(* range of the model checker's integers.                                  *)
(***************************************************************************)
EXTENDS Integers, Sequences, FiniteSets, TLC

\* hill_climb's variables (src/hillclimb.py:13-53)
VARIABLES
    score_fn,       \* the score_function argument: [kind, t]
    init_data,      \* contents of the caller's list at the call
    heap,           \* the list objects: heap[ref] is the contents of list ref
    data,           \* reference held by the caller and by parameter `data`
    current_best,   \* reference of current_best (0: not yet bound)
    current_score,  \* <<>>: not yet bound, else a score <<h, l>>
    step_i,         \* position of the `for step in [...]` loop, 1..6
    improved,       \* the flag of the while loop
    candidates,     \* the list of candidate references
    cand_i,         \* position of the `for c in candidates` loop
    hc_pc,          \* "call", "while", "score", "done", "raised"
    result,         \* reference returned (0: nothing returned)
    \* history of the run, read by the properties only
    evals,          \* number of calls of score_function so far
    failed,         \* TRUE once score_function has raised
    iter_evals,     \* vectors scored in the current inner iteration, in order
    iter_base,      \* contents of current_best when the candidates were built
    iter_score,     \* current_score when the candidates were built
    iter_best,      \* reference of current_best when they were built
    iters           \* inner iterations begun in the current step

hcVars == <<score_fn, init_data, heap, data, current_best, current_score,
            step_i, improved, candidates, cand_i, hc_pc, result, evals,
            failed, iter_evals, iter_base, iter_score, iter_best, iters>>

\* auto_stage's variables (src/krpcutils.py:148-163, src/launcher.py:60-70)
VARIABLES
    variant,        \* which auto_stage runs: "krpcutils" or "launcher"
    thrust,         \* vessel.available_thrust
    has_threshold,  \* launcher: hasattr(auto_stage, "available_thrust")
    threshold,      \* self.available_thrust / auto_stage.available_thrust
    as_pc,          \* "idle": not in a call; "loop": inside `while True`
    stages_left,    \* stages the vessel can still activate
    \* history, read by the properties only
    events          \* thrust values observed and stage activations, in
                    \* the order they happened

stVars == <<variant, thrust, has_threshold, threshold, as_pc, stages_left,
            events>>

\* The vessel and the game (the kRPC objects the scripts read and write)
VARIABLES
    nodes,          \* vessel.control.nodes, in time order; a node is
                    \* [id, ut, prograde, radial, normal]
    next_id,        \* identity of the next node created
    throttle,       \* vessel.control.throttle, as a fraction [n, d]
    ut,             \* space_center.ut, in half seconds
    sas,            \* vessel.control.sas
    sas_mode,       \* vessel.control.sas_mode
    ap_engaged,     \* vessel.auto_pilot is engaged
    mass            \* vessel.mass

veVars == <<nodes, next_id, throttle, ut, sas, sas_mode, ap_engaged, mass>>

\* execute_next_node and the functions it calls (src/krpcutils.py:182-288)
VARIABLES
    en_pc,          \* position: "call", "burn_time", "align", "set_sas",
                    \* "sas_poll", "autopilot", "al_return", "wait",
                    \* "wait_poll", "burn", "eb_stage", "eb_staging",
                    \* "eb_throttle", "eb_read", "eb_end", "remove",
                    \* "returned", "raised"
    use_sas,        \* the use_sas argument
    node,           \* identity of the node being executed (0: none)
    burn_time,      \* result of calculate_burn_time, in seconds
    sas_result,     \* "none", or what set_sas_mode returned: "True", "False"
    facing,         \* align_with_node: the last facing sample, a vector in
                    \* hundredths (<<>>: none read)
    error,          \* align_with_node: `error`, in tenths of a degree
    dv_,            \* execute_burn: `dv_`, in hundredths of m/s
    last_dv,        \* execute_burn: `last_dv`
    \* history, read by the properties only
    errors,         \* messages logged with logger.error
    phases,         \* the phases of execute_next_node begun, in order
    nodes_at_call,  \* vessel.control.nodes when execute_next_node was called
    sas_polled,     \* the SAS polling loop has read a facing sample
    ap_used,        \* the autopilot loop has engaged the autopilot
    reads,          \* reads of remaining_delta_v in execute_burn
    stage_calls     \* calls of auto_stage in execute_burn

exCall == <<use_sas, node, nodes_at_call, errors>>

exAlign == <<sas_result, facing, error, sas_polled, ap_used>>

exBurn == <<dv_, last_dv, reads, stage_calls>>

exVars == <<en_pc, burn_time, phases, exCall, exAlign, exBurn>>

\* The planner score functions (src/circularise.py:14-32 and
\* src/krpcutils.py:535-552) while hill_climb evaluates them
VARIABLES
    planner,        \* which score function: "eccentricity", "inclination"
    target_time,    \* time of the node an evaluation adds: ut +
                    \* time_to_apoapsis, or target_time
    transient,      \* identity of the node the evaluation in progress has
                    \* added and not removed (0: none)
    pl_pc,          \* position in the evaluation: "added", "read",
                    \* "removed"
    ev_for,         \* number of the evaluation begun last; it is in
                    \* progress until hill_climb has counted it in evals
    \* history, read by the properties only
    plan_nodes      \* vessel.control.nodes when hill_climb was called

plVars == <<planner, target_time, transient, pl_pc, ev_for, plan_nodes>>

\* do_circularisation (src/circularise.py:34-53) and inclination_change
\* (src/krpcutils.py:554-572), the callers of hill_climb
VARIABLES
    mv_pc,          \* position: "call", "climb", "execute", "returned",
                    \* "raised"
    in_flight,      \* self.conn.vessel() is a vessel (not None)
    inclination,    \* inclination_change: the target, in thousandths of
                    \* a degree
    orbit_inclination,  \* vessel.orbit.inclination, in thousandths of a
                    \* radian
    node_times,     \* (an_time, dn_time) of time_ascending_descending_nodes
    node_time,      \* inclination_change: `node_time` (0: not chosen)
    mv_log          \* messages logged with logger.info

mvVars == <<mv_pc, in_flight, inclination, orbit_inclination, node_times,
            node_time, mv_log>>

\* A logger and the calls in progress of functions decorated with log_as
\* on it (src/decorators.py:8-25)
VARIABLES
    lg_level,       \* logger.level
    lg_stack,       \* the wrappers whose function is running, outermost
                    \* first: [current_level, level, entry]; `entry` is
                    \* history (the logger's level when the call was made)
    lg_last,        \* the last logging call made: [lvl, out], out telling
                    \* whether the message was emitted
    lg_exc          \* an exception is propagating, or has left the
                    \* outermost call

lgVars == <<lg_level, lg_stack, lg_last, lg_exc>>

\* A call of the constructor of Vector (src/vector.py:14-33)
VARIABLES
    vc_args,        \* *args: each argument is [it, v], a scalar v[1]
                    \* (it = FALSE) or an iterable of the elements v
    vc_vector       \* self.vector (<<>>: not constructed yet)

vcVars == <<vc_args, vc_vector>>

auxVars == <<lgVars, vcVars>>

vars == <<hcVars, stVars, veVars, exVars, plVars, mvVars, auxVars>>

\* Everything but hill_climb's variables, and everything but auto_stage's
notHc == <<stVars, veVars, exVars, plVars, mvVars, auxVars>>

notSt == <<hcVars, veVars, exVars, plVars, mvVars, auxVars>>

-----------------------------------------------------------------------------
\* Exact arithmetic

\* Thousandths in one unit: the smallest step 0.001 is 1.
Unit == 1000

Base == Unit * Unit

Abs(x) == IF x < 0 THEN -x ELSE x

\* h * Base + l, with l brought into 0 .. Base-1
Norm(h, l) == <<h + (l \div Base), l % Base>>

\* u * u for 0 <= u, as a score
Sq(u) ==
    LET u1 == u \div Unit
        u0 == u % Unit
    IN  Norm(u1 * u1, 2 * u1 * u0 * Unit + u0 * u0)

AddS(p, q) == Norm(p[1] + q[1], p[2] + q[2])

\* p < q on scores
Less(p, q) == p[1] < q[1] \/ (p[1] = q[1] /\ p[2] < q[2])

LessEq(p, q) == p = q \/ Less(p, q)

\* int(math.pow(2, n))
RECURSIVE Pow2(_)
Pow2(n) == IF n = 0 THEN 1 ELSE 2 * Pow2(n - 1)

-----------------------------------------------------------------------------
\* The score functions handed to hill_climb.  They are inputs: deterministic
\* functions of the vector, lower is better.
\*   "neg":    sum of -d[i] (unbounded below)
\*   "abs":    sum of |d[i] - t[i]|
\*   "sq":     sum of (d[i] - t[i])^2
\*   "ripple": sum of |d[i] - t[i]| + 0.3 on every other unit of distance
\*             (not convex: it has local minima)

Term(kind, x, t) ==
    CASE kind = "abs" -> Norm(0, Abs(x - t))
      [] kind = "sq" -> Sq(Abs(x - t))
      [] kind = "ripple" ->
            Norm(0, Abs(x - t) + 300 * ((Abs(x - t) \div Unit) % 2))
      [] kind = "neg" -> Norm(0, -x)

RECURSIVE SumScore(_, _, _)
SumScore(fn, d, i) ==
    IF i > Len(d) THEN <<0, 0>>
    ELSE AddS(Term(fn.kind, d[i], fn.t[i]), SumScore(fn, d, i + 1))

score_function(fn, d) == SumScore(fn, d, 1)

-----------------------------------------------------------------------------
\* Inputs of a run of hill_climb

\* Number of further one-parameter targets tried besides 3.7 and 5
NTargets == 3

ExtraTarget(k) == ((k * 123457) % 400000) - 150000

Targets1 == {<<3700>>, <<5000>>} \cup {<<ExtraTarget(k)>> : k \in 1..NTargets}

Inits1 == {<<0>>, <<7250>>, <<-120005>>}

Targets2 == {<<2000, -1000>>, <<2000, 2000>>, <<-1503, 12345>>}

Inits2 == {<<0, 0>>, <<1500, -2500>>}

Kinds == {"abs", "sq", "ripple"}

Inputs ==
    {[init |-> i, fn |-> [kind |-> k, t |-> t]] :
        i \in Inits1, k \in Kinds, t \in Targets1}
    \cup {[init |-> i, fn |-> [kind |-> k, t |-> t]] :
        i \in Inits2, k \in Kinds, t \in Targets2}
    \cup {[init |-> <<>>, fn |-> [kind |-> k, t |-> <<>>]] : k \in Kinds}

-----------------------------------------------------------------------------
\* hill_climb (src/hillclimb.py)

\* The schedule without its last step.
StepsWithoutLast == <<100000, 10000, 1000, 100, 10>>

\* for step in [100, 10, 1, 0.1, 0.01, 0.001], in thousandths
Steps == <<100000, 10000, 1000, 100, 10, 1>>

\* A plain assignment in place of a copy: the same list object.
Alias(h, ref) == [heap |-> h, ref |-> ref]

\* list.copy(): a new list object with the same contents
Copy(h, ref) == [heap |-> Append(h, h[ref]), ref |-> Len(h) + 1]

\* lst[b] += delta, in place (b counted from 0 as in the source)
AddAt(h, ref, b, delta) == [h EXCEPT ![ref][b + 1] = @ + delta]

\* The loop below with `dec[b] += step` written for `dec[b] -= step`.
RECURSIVE BitsLoopDecAdds(_, _, _, _, _, _, _)
BitsLoopDecAdds(h, inc, dec, c, b, n, step) ==
    IF b >= n THEN h
    ELSE LET hit == (c \div Pow2(b)) % 2 = 1
             h1 == IF hit
                   THEN AddAt(AddAt(h, inc, b, step), dec, b, step)
                   ELSE h
         IN  BitsLoopDecAdds(h1, inc, dec, c, b + 1, n, step)

\* for b in range(0, len(data)):
\*     if c & (1 << b) != 0: inc[b] += step; dec[b] -= step
RECURSIVE BitsLoop(_, _, _, _, _, _, _)
BitsLoop(h, inc, dec, c, b, n, step) ==
    IF b >= n THEN h
    ELSE LET hit == (c \div Pow2(b)) % 2 = 1
             h1 == IF hit
                   THEN AddAt(AddAt(h, inc, b, step), dec, b, -step)
                   ELSE h
         IN  BitsLoop(h1, inc, dec, c, b + 1, n, step)

\* for c in range(c, int(math.pow(2, len(data)))):
\*     inc = current_best.copy(); dec = current_best.copy()
\*     ...; candidates += [inc, dec]
RECURSIVE SubsetLoop(_, _, _, _, _, _)
SubsetLoop(h, cands, cur, c, n, step) ==
    IF c >= Pow2(n) THEN [heap |-> h, candidates |-> cands]
    ELSE LET i == Copy(h, cur)
             d == Copy(i.heap, cur)
             h2 == BitsLoop(d.heap, i.ref, d.ref, c, 0, n, step)
         IN  SubsetLoop(h2, cands \o <<i.ref, d.ref>>, cur, c + 1, n, step)

\* The loop begun at subset 0: range(0, 2^len(data)).
GenerateFromZero(h, cur, n, step) == SubsetLoop(h, <<>>, cur, 0, n, step)

\* The per-axis loop left commented out at lines 27-32 (and used by
\* src/launcher.py:230-235): one dimension at a time.
RECURSIVE AxisLoop(_, _, _, _, _, _)
AxisLoop(h, cands, cur, c, n, step) ==
    IF c >= n THEN [heap |-> h, candidates |-> cands]
    ELSE LET i == Copy(h, cur)
             d == Copy(i.heap, cur)
             h2 == AddAt(AddAt(d.heap, i.ref, c, step), d.ref, c, -step)
         IN  AxisLoop(h2, cands \o <<i.ref, d.ref>>, cur, c + 1, n, step)

GenerateAxisOnly(h, cur, n, step) == AxisLoop(h, <<>>, cur, 0, n, step)

\* candidates = [] followed by the loop over range(1, 2^len(data))
GenerateCandidates(h, cur, n, step) == SubsetLoop(h, <<>>, cur, 1, n, step)

\* The comparison turned round: `if score > current_score`.
Worsens(score, best) == Less(best, score)

\* The comparison with equality let through: `if score <= current_score`.
ImprovesOrEqual(score, best) == LessEq(score, best)

\* `if score < current_score`
Improves(score, best) == Less(score, best)

\* The exception caught and the evaluation tried again.
CatchAndRetry ==
    /\ failed' = TRUE
    /\ hc_pc' = hc_pc

\* hill_climb has no try/except: an exception of score_function leaves it.
Propagate ==
    /\ failed' = TRUE
    /\ hc_pc' = "raised"

HcInitWith(in) ==
    /\ score_fn = in.fn
    /\ init_data = in.init
    /\ heap = <<init_data>>
    /\ data = 1
    /\ current_best = 0
    /\ current_score = <<>>
    /\ step_i = 0
    /\ improved = FALSE
    /\ candidates = <<>>
    /\ cand_i = 0
    /\ hc_pc = "call"
    /\ result = 0
    /\ evals = 0
    /\ failed = FALSE
    /\ iter_evals = <<>>
    /\ iter_base = <<>>
    /\ iter_score = <<>>
    /\ iter_best = 0
    /\ iters = 0

HcInit == \E in \in Inputs : HcInitWith(in)

\* lines 20-23: current_score = score_function(data); current_best =
\* data.copy(); the for loop takes its first step; improved = True
HcStart ==
    /\ hc_pc = "call"
    /\ LET cp == Copy(heap, data)
       IN  /\ current_score' = score_function(score_fn, heap[data])
           /\ heap' = cp.heap
           /\ current_best' = cp.ref
    /\ evals' = evals + 1
    /\ step_i' = 1
    /\ improved' = TRUE
    /\ hc_pc' = "while"
    /\ UNCHANGED <<score_fn, init_data, data, candidates, cand_i, result,
                   failed, iter_evals, iter_base, iter_score, iter_best,
                   iters>>
    /\ UNCHANGED notHc

\* line 20 when score_function raises
HcStartFails ==
    /\ hc_pc = "call"
    /\ evals' = evals + 1
    /\ Propagate
    /\ UNCHANGED <<score_fn, init_data, heap, data, current_best,
                   current_score, step_i, improved, candidates, cand_i,
                   result, iter_evals, iter_base, iter_score, iter_best,
                   iters>>
    /\ UNCHANGED notHc

\* The lists still referenced when `candidates` is rebound at line 26 are the
\* caller's list and current_best; they are renumbered 1 and 2 (1 alone when
\* they are one object), the lists of the previous iteration are dropped.
LiveHeap ==
    IF current_best = data THEN <<heap[data]>>
    ELSE <<heap[data], heap[current_best]>>

LiveBest == IF current_best = data THEN 1 ELSE 2

\* lines 24-42: the while test succeeds, the candidates are built from
\* current_best, improved = False
HcWhile ==
    /\ hc_pc = "while"
    /\ improved
    /\ LET g == GenerateCandidates(LiveHeap, LiveBest, Len(heap[data]),
                                   Steps[step_i])
       IN  /\ heap' = g.heap
           /\ candidates' = g.candidates
    /\ current_best' = LiveBest
    /\ improved' = FALSE
    /\ cand_i' = 1
    /\ hc_pc' = "score"
    /\ iter_evals' = <<>>
    /\ iter_base' = heap[current_best]
    /\ iter_score' = current_score
    /\ iter_best' = LiveBest
    /\ iters' = iters + 1
    /\ UNCHANGED <<score_fn, init_data, data, current_score, step_i, result,
                   evals, failed>>
    /\ UNCHANGED notHc

\* The pass below with a `break` after the first improvement.
HcScoreBreak ==
    /\ hc_pc = "score"
    /\ cand_i <= Len(candidates)
    /\ LET c == candidates[cand_i]
           score == score_function(score_fn, heap[c])
       IN  /\ IF Improves(score, current_score)
              THEN /\ current_score' = score
                   /\ current_best' = c
                   /\ improved' = TRUE
                   /\ cand_i' = Len(candidates) + 1
              ELSE /\ UNCHANGED <<current_score, current_best, improved>>
                   /\ cand_i' = cand_i + 1
           /\ iter_evals' = Append(iter_evals, heap[c])
    /\ evals' = evals + 1
    /\ UNCHANGED <<score_fn, init_data, heap, data, step_i, candidates,
                   hc_pc, result, failed, iter_base, iter_score, iter_best,
                   iters>>
    /\ UNCHANGED notHc

\* lines 43-48, one pass of `for c in candidates`
HcScore ==
    /\ hc_pc = "score"
    /\ cand_i <= Len(candidates)
    /\ LET c == candidates[cand_i]
           score == score_function(score_fn, heap[c])
       IN  /\ IF Improves(score, current_score)
              THEN /\ current_score' = score
                   /\ current_best' = c
                   /\ improved' = TRUE
              ELSE UNCHANGED <<current_score, current_best, improved>>
           /\ iter_evals' = Append(iter_evals, heap[c])
    /\ cand_i' = cand_i + 1
    /\ evals' = evals + 1
    /\ UNCHANGED <<score_fn, init_data, heap, data, step_i, candidates,
                   hc_pc, result, failed, iter_base, iter_score, iter_best,
                   iters>>
    /\ UNCHANGED notHc

\* line 44 when score_function raises
HcScoreFails ==
    /\ hc_pc = "score"
    /\ cand_i <= Len(candidates)
    /\ evals' = evals + 1
    /\ Propagate
    /\ UNCHANGED <<score_fn, init_data, heap, data, current_best,
                   current_score, step_i, improved, candidates, cand_i,
                   result, iter_evals, iter_base, iter_score, iter_best,
                   iters>>
    /\ UNCHANGED notHc

\* lines 49-51: the for loop over the candidates is exhausted; back to the
\* while test
HcEndFor ==
    /\ hc_pc = "score"
    /\ cand_i > Len(candidates)
    /\ hc_pc' = "while"
    /\ UNCHANGED <<score_fn, init_data, heap, data, current_best,
                   current_score, step_i, improved, candidates, cand_i,
                   result, evals, failed, iter_evals, iter_base, iter_score,
                   iter_best, iters>>
    /\ UNCHANGED notHc

\* The next step taken without the test of `improved`.
HcNextStepEarly ==
    /\ hc_pc = "while"
    /\ step_i < Len(Steps)
    /\ step_i' = step_i + 1
    /\ improved' = TRUE
    /\ iters' = 0
    /\ UNCHANGED <<score_fn, init_data, heap, data, current_best,
                   current_score, candidates, cand_i, hc_pc, result, evals,
                   failed, iter_evals, iter_base, iter_score, iter_best>>
    /\ UNCHANGED notHc

\* lines 22-23: the while test fails and the for loop takes its next step
HcNextStep ==
    /\ hc_pc = "while"
    /\ ~improved
    /\ step_i < Len(Steps)
    /\ step_i' = step_i + 1
    /\ improved' = TRUE
    /\ iters' = 0
    /\ UNCHANGED <<score_fn, init_data, heap, data, current_best,
                   current_score, candidates, cand_i, hc_pc, result, evals,
                   failed, iter_evals, iter_base, iter_score, iter_best>>
    /\ UNCHANGED notHc

\* lines 52-53: the steps are exhausted; return current_best
HcReturn ==
    /\ hc_pc = "while"
    /\ ~improved
    /\ step_i = Len(Steps)
    /\ result' = current_best
    /\ hc_pc' = "done"
    /\ UNCHANGED <<score_fn, init_data, heap, data, current_best,
                   current_score, step_i, improved, candidates, cand_i,
                   evals, failed, iter_evals, iter_base, iter_score,
                   iter_best, iters>>
    /\ UNCHANGED notHc

-----------------------------------------------------------------------------
\* auto_stage (src/krpcutils.py:148-163 and src/launcher.py:60-70)
\*
\* vessel.available_thrust belongs to the game: it changes between calls of
\* auto_stage (engines burn out) and when a stage is activated.  The reads
\* auto_stage makes without activating a stage in between see one value.

\* Longest history of observations and activations followed
MaxEvents == 6

\* Most stages a vessel has left when the model starts
MaxStages == 2

ThrustLevels == {0, 5, 100, 120}

\* Entries of `events`: a thrust value read by auto_stage, and a call of
\* vessel.control.activate_next_stage()
Obs(v) == [e |-> "obs", v |-> v]

Staged == [e |-> "stage", v |-> 0]

\* self.available_thrust = -100 set by KrpcUtilities.__init__
Unset == -100

\* The threshold with the margin forgotten.
ThresholdNoMargin(t) == t

\* `vessel.available_thrust - 10`
Threshold(t) == t - 10

\* `vessel.available_thrust < self.available_thrust`
Below(t, thr) == t < thr

\* The loop left on `>= 0`.
HasThrustOrZero(t) == t >= 0

\* `if vessel.available_thrust > 0`
HasThrust(t) == t > 0

StInitWith(v) ==
    /\ variant = v
    /\ thrust \in ThrustLevels
    /\ has_threshold = (v = "krpcutils")
    /\ threshold = IF v = "krpcutils" THEN Unset ELSE 0
    /\ as_pc = "idle"
    /\ stages_left \in 0..MaxStages
    /\ events = <<>>

\* vessel.control.activate_next_stage(): with a stage left the vessel ends
\* with thrust v, with none left nothing changes.
ActivateNextStage(v) ==
    IF stages_left > 0
    THEN thrust' = v /\ stages_left' = stages_left - 1
    ELSE thrust' = thrust /\ stages_left' = stages_left

StInit == \E v \in {"krpcutils", "launcher"} : StInitWith(v)

\* The game between two calls: available thrust changes.
EnvThrust ==
    /\ as_pc = "idle"
    /\ \E v \in ThrustLevels \ {thrust} : thrust' = v
    /\ UNCHANGED <<variant, has_threshold, threshold, as_pc, stages_left,
                   events>>
    /\ UNCHANGED notSt

\* krpcutils.py:150-157: the call up to the test that decides on staging
KuAutoStage ==
    /\ variant = "krpcutils"
    /\ as_pc = "idle"
    /\ Len(events) < MaxEvents
    /\ threshold' = IF threshold < -10 THEN Threshold(thrust) ELSE threshold
    /\ as_pc' = IF Below(thrust, threshold') THEN "loop" ELSE "idle"
    /\ events' = Append(events, Obs(thrust))
    /\ UNCHANGED <<variant, thrust, has_threshold, stages_left>>
    /\ UNCHANGED notSt

\* krpcutils.py:158-163: one pass of `while True`
KuActivate ==
    /\ variant = "krpcutils"
    /\ as_pc = "loop"
    /\ Len(events) + 2 <= MaxEvents
    /\ \E v \in ThrustLevels :
        /\ ActivateNextStage(v)
        /\ events' = events \o <<Staged, Obs(thrust')>>
        /\ IF HasThrust(thrust')
           THEN /\ threshold' = Threshold(thrust')
                /\ as_pc' = "idle"
           ELSE UNCHANGED <<threshold, as_pc>>
    /\ UNCHANGED <<variant, has_threshold>>
    /\ UNCHANGED notSt

\* launcher.py:62-64: the call up to the test that decides on staging
LaAutoStage ==
    /\ variant = "launcher"
    /\ as_pc = "idle"
    /\ Len(events) < MaxEvents
    /\ has_threshold' = TRUE
    /\ threshold' = IF ~has_threshold THEN Threshold(thrust) ELSE threshold
    /\ as_pc' = IF Below(thrust, threshold') THEN "loop" ELSE "idle"
    /\ events' = Append(events, Obs(thrust))
    /\ UNCHANGED <<variant, thrust, stages_left>>
    /\ UNCHANGED notSt

\* launcher.py:65-70: one pass of `while True`, and the assignment after the
\* loop when the pass breaks out of it
LaActivate ==
    /\ variant = "launcher"
    /\ as_pc = "loop"
    /\ Len(events) + 2 <= MaxEvents
    /\ \E v \in ThrustLevels :
        /\ ActivateNextStage(v)
        /\ events' = events \o <<Staged, Obs(thrust')>>
        /\ IF HasThrust(thrust')
           THEN /\ threshold' = Threshold(thrust')
                /\ as_pc' = "idle"
           ELSE UNCHANGED <<threshold, as_pc>>
    /\ UNCHANGED <<variant, has_threshold>>
    /\ UNCHANGED notSt

-----------------------------------------------------------------------------
\* execute_next_node (src/krpcutils.py:276-288) and what it calls:
\* calculate_burn_time (208-216), align_with_node (218-252), set_sas_mode
\* (196-206), wait_until_time (182-194), execute_burn (254-274).
\*
\* Time is counted in half seconds, so that node.ut - burn_time / 2 is exact
\* for a burn time in whole seconds.  Angles are in tenths of a degree,
\* delta-v in hundredths of m/s.  A throttle is a fraction [n, d].

NodeA == [id |-> 1, ut |-> 60, prograde |-> 500, radial |-> 0, normal |-> 0]

NodeB == [id |-> 2, ut |-> 200, prograde |-> 0, radial |-> 0, normal |-> 70]

NodeLists == {<<>>, <<NodeA>>, <<NodeA, NodeB>>}

\* Values calculate_burn_time returns, in seconds
BurnTimes == {4, 20}

\* Values of space_center.ut when execute_next_node is called
StartTimes == {0, 58}

\* Facing vectors a sample can show, in hundredths
FacingSamples ==
    {<<0, 100, 0>>, <<3, 100, 0>>, <<4, 100, 0>>, <<100, 0, 0>>,
     <<0, -100, 0>>}

\* Values of vessel.auto_pilot.error, in tenths of a degree
ApErrors == {-21, -20, 0, 20, 21}

\* Values remaining_delta_v() returns, in hundredths of m/s
DvLevels == {0, 1, 2, 50, 51, 52}

\* Most reads of remaining_delta_v followed in one burn
MaxReads == 3

\* lead_time = 5, in seconds
LeadTime == 5

Zero == [n |-> 0, d |-> 1]

Full == [n |-> 1, d |-> 1]

Hundredth == [n |-> 1, d |-> 100]

\* p <= q, p < q and p = q on fractions with positive denominators
FracLe(p, q) == p.n * q.d <= q.n * p.d

FracLt(p, q) == p.n * q.d < q.n * p.d

FracEq(p, q) == p.n * q.d = q.n * p.d

\* min(p, q) and max(p, q) of Python: the first argument unless the second
\* is strictly smaller (larger)
FracMin(p, q) == IF FracLt(q, p) THEN q ELSE p

FracMax(p, q) == IF FracLt(p, q) THEN q ELSE p

VeInitWith(ns, t, th) ==
    /\ nodes = ns
    /\ next_id = 3
    /\ throttle = th
    /\ ut = t
    /\ sas = FALSE
    /\ sas_mode = "stability_assist"
    /\ ap_engaged = TRUE
    /\ mass = 10

ExInitWith(u) ==
    /\ en_pc = "call"
    /\ use_sas = u
    /\ node = 0
    /\ burn_time = 0
    /\ sas_result = "none"
    /\ facing = <<>>
    /\ error = 0
    /\ dv_ = 0
    /\ last_dv = 0
    /\ errors = <<>>
    /\ phases = <<>>
    /\ nodes_at_call = nodes
    /\ sas_polled = FALSE
    /\ ap_used = FALSE
    /\ reads = 0
    /\ stage_calls = 0

\* The node of the vessel with identity id
NodeOf(id) == CHOOSE x \in {nodes[i] : i \in 1..Len(nodes)} : x.id = id

\* The first node of the plan removed in place of the node given.
RemoveHead(ns, id) == Tail(ns)

\* node.remove()
RemoveNode(ns, id) == SelectSeq(ns, LAMBDA x : x.id # id)

\* Of auto_stage's state only thrust, threshold and stages_left can change
\* while execute_next_node runs (inside execute_burn); hill_climb is not
\* running.
ExFrame ==
    UNCHANGED <<hcVars, variant, has_threshold, as_pc, events, plVars,
                mvVars, auxVars>>

NoStaging == UNCHANGED <<thrust, threshold, stages_left>>

\* nodes[0] taken without the test on the length: IndexError on an empty
\* list.
EnCallUnchecked ==
    /\ en_pc = "call"
    /\ IF Len(nodes) > 0
       THEN /\ node' = nodes[1].id
            /\ en_pc' = "burn_time"
       ELSE /\ node' = 0
            /\ en_pc' = "raised"
    /\ nodes_at_call' = nodes
    /\ UNCHANGED <<use_sas, errors, burn_time, phases, exAlign, exBurn>>
    /\ UNCHANGED veVars
    /\ NoStaging
    /\ ExFrame

\* lines 278-279 and 287-288: the test on the node list
EnCall ==
    /\ en_pc = "call"
    /\ IF Len(nodes) > 0
       THEN /\ node' = nodes[1].id
            /\ en_pc' = "burn_time"
            /\ UNCHANGED errors
       ELSE /\ node' = 0
            /\ en_pc' = "returned"
            /\ errors' = Append(errors,
                                "execute_next_node: No Node to execute")
    /\ nodes_at_call' = nodes
    /\ UNCHANGED <<use_sas, burn_time, phases, exAlign, exBurn>>
    /\ UNCHANGED veVars
    /\ NoStaging
    /\ ExFrame

\* line 281, calculate_burn_time (208-216): with no available thrust
\* flow_rate is 0 and the division raises ZeroDivisionError; otherwise the
\* rocket equation gives some burn time.
EnBurnTime ==
    /\ en_pc = "burn_time"
    /\ IF thrust = 0
       THEN /\ en_pc' = "raised"
            /\ UNCHANGED burn_time
       ELSE /\ \E b \in BurnTimes : burn_time' = b
            /\ en_pc' = "align"
    /\ phases' = Append(phases, "burn_time")
    /\ UNCHANGED <<exCall, exAlign, exBurn>>
    /\ UNCHANGED veVars
    /\ NoStaging
    /\ ExFrame

\* align_with_node, lines 224-226 and 243: `if use_sas` with
\* auto_pilot.disengage(), or straight to `error = 100`
AlStart ==
    /\ en_pc = "align"
    /\ phases' = Append(phases, "align")
    /\ IF use_sas
       THEN /\ ap_engaged' = FALSE
            /\ en_pc' = "set_sas"
            /\ UNCHANGED error
       ELSE /\ UNCHANGED ap_engaged
            /\ en_pc' = "autopilot"
            /\ error' = 1000
    /\ UNCHANGED <<sas_result, facing, sas_polled, ap_used>>
    /\ UNCHANGED <<burn_time, exCall, exBurn>>
    /\ UNCHANGED <<nodes, next_id, throttle, ut, sas, sas_mode, mass>>
    /\ NoStaging
    /\ ExFrame

\* What the game does with the two assignments of set_sas_mode
SasOutcomes == {"ok", "sas_raises", "mode_raises"}

\* The handler without `self.vessel.control.sas = False`.
SetSasModeNoReset(o, new_mode) ==
    CASE o = "ok" -> [sas |-> TRUE, sas_mode |-> new_mode, ret |-> TRUE]
      [] o = "sas_raises" -> [sas |-> sas, sas_mode |-> sas_mode,
                              ret |-> FALSE]
      [] o = "mode_raises" -> [sas |-> TRUE, sas_mode |-> sas_mode,
                               ret |-> FALSE]

\* set_sas_mode (196-206): the vessel's sas and sas_mode afterwards, and the
\* value returned
SetSasMode(o, new_mode) ==
    CASE o = "ok" -> [sas |-> TRUE, sas_mode |-> new_mode, ret |-> TRUE]
      [] o = "sas_raises" -> [sas |-> FALSE, sas_mode |-> sas_mode,
                              ret |-> FALSE]
      [] o = "mode_raises" -> [sas |-> FALSE, sas_mode |-> sas_mode,
                               ret |-> FALSE]

\* The autopilot loop skipped when SAS has aligned the vessel.
AfterSasReturn ==
    /\ en_pc' = "al_return"
    /\ UNCHANGED error

\* lines 239 and 243: after the polling loop comes `error = 100` and the
\* autopilot loop
AfterSasAutoPilot ==
    /\ en_pc' = "autopilot"
    /\ error' = 1000

\* line 227: the call of set_sas_mode and the branch on its result
AlSetSasMode ==
    /\ en_pc = "set_sas"
    /\ \E o \in SasOutcomes :
        LET r == SetSasMode(o, "maneuver")
        IN  /\ sas' = r.sas
            /\ sas_mode' = r.sas_mode
            /\ sas_result' = IF r.ret THEN "True" ELSE "False"
            /\ IF r.ret
               THEN /\ en_pc' = "sas_poll"
                    /\ UNCHANGED error
               ELSE /\ en_pc' = "autopilot"
                    /\ error' = 1000
    /\ UNCHANGED <<facing, sas_polled, ap_used>>
    /\ UNCHANGED <<burn_time, phases, exCall, exBurn>>
    /\ UNCHANGED <<nodes, next_id, throttle, ut, ap_engaged, mass>>
    /\ NoStaging
    /\ ExFrame

\* Vector.angle (src/vector.py:54-61) of v to (0, 1, 0), compared with 2
\* degrees: 90 when the dot product is 0, else acos(dot / (|v| * 1)); the
\* angle is below 2 degrees when the cosine is above cos(2 deg), whose
\* square is 0.9988.
AngleBelow2(v) ==
    LET dot == v[2]
        mag2 == v[1] * v[1] + v[2] * v[2] + v[3] * v[3]
    IN  /\ dot # 0
        /\ dot > 0
        /\ dot * dot * 10000 > 9988 * mag2

\* lines 234-238: one pass of `while not pointing_at_node`
AlSasPoll ==
    /\ en_pc = "sas_poll"
    /\ \E v \in FacingSamples :
        /\ facing' = v
        /\ IF AngleBelow2(v)
           THEN AfterSasAutoPilot
           ELSE UNCHANGED <<en_pc, error>>
    /\ sas_polled' = TRUE
    /\ UNCHANGED <<sas_result, ap_used>>
    /\ UNCHANGED <<burn_time, phases, exCall, exBurn>>
    /\ UNCHANGED veVars
    /\ NoStaging
    /\ ExFrame

\* The loop test without math.fabs.
WithinSigned(e) == ~(e > 20)

\* `while math.fabs(error) > 2` is left
Within(e) == ~(Abs(e) > 20)

\* lines 244-252: one pass of the autopilot loop
AlAutoPilot ==
    /\ en_pc = "autopilot"
    /\ ~Within(error)
    /\ sas' = FALSE
    /\ ap_engaged' = TRUE
    /\ ap_used' = TRUE
    /\ \E e \in ApErrors : error' = e
    /\ UNCHANGED <<en_pc, sas_result, facing, sas_polled>>
    /\ UNCHANGED <<burn_time, phases, exCall, exBurn>>
    /\ UNCHANGED <<nodes, next_id, throttle, ut, sas_mode, mass>>
    /\ NoStaging
    /\ ExFrame

\* line 244: the loop test fails and align_with_node returns
AlLoopExit ==
    /\ en_pc = "autopilot"
    /\ Within(error)
    /\ en_pc' = "al_return"
    /\ UNCHANGED <<burn_time, phases, exCall, exAlign, exBurn>>
    /\ UNCHANGED veVars
    /\ NoStaging
    /\ ExFrame

\* align_with_node has returned to line 283: its locals are gone
AlReturn ==
    /\ en_pc = "al_return"
    /\ en_pc' = "wait"
    /\ facing' = <<>>
    /\ error' = 0
    /\ UNCHANGED <<sas_result, sas_polled, ap_used>>
    /\ UNCHANGED <<burn_time, phases, exCall, exBurn>>
    /\ UNCHANGED veVars
    /\ NoStaging
    /\ ExFrame

\* line 283: node.ut - (burn_time / 2), in half seconds
StartTime == NodeOf(node).ut - burn_time

\* The wait ended at the time warped to.
ReachedLead(ut_time, now) == ~(ut_time - 2 * LeadTime - now > 0)

\* `while ut_time - self.ksc.ut > 0` is left
Reached(ut_time, now) == ~(ut_time - now > 0)

\* lines 188-191: warp_to(ut_time - lead_time) returns at once when that
\* time has passed, else when the game has reached it (it may run a tick
\* over)
WaWarp ==
    /\ en_pc = "wait"
    /\ phases' = Append(phases, "wait")
    /\ IF ut >= StartTime - 2 * LeadTime
       THEN UNCHANGED ut
       ELSE \E over \in 0..1 : ut' = StartTime - 2 * LeadTime + over
    /\ en_pc' = "wait_poll"
    /\ UNCHANGED <<burn_time, exCall, exAlign, exBurn>>
    /\ UNCHANGED <<nodes, next_id, throttle, sas, sas_mode, ap_engaged, mass>>
    /\ NoStaging
    /\ ExFrame

\* The game's clock while wait_until_time spins in its loop
EnvTick ==
    /\ en_pc = "wait_poll"
    /\ ~Reached(StartTime, ut)
    /\ \E k \in {1, 3} : ut' = ut + k
    /\ UNCHANGED exVars
    /\ UNCHANGED <<nodes, next_id, throttle, sas, sas_mode, ap_engaged, mass>>
    /\ NoStaging
    /\ ExFrame

\* lines 193-194: the loop test fails and wait_until_time returns
WaLoopExit ==
    /\ en_pc = "wait_poll"
    /\ Reached(StartTime, ut)
    /\ en_pc' = "burn"
    /\ UNCHANGED <<burn_time, phases, exCall, exAlign, exBurn>>
    /\ UNCHANGED veVars
    /\ NoStaging
    /\ ExFrame

\* `while dv_ > 0.01`
Remaining(dv) == dv > 1

\* The overshoot test without its tolerance.
OvershootNoTolerance(dv, last) == dv > last

\* `if dv_ > last_dv + 0.01`
Overshoot(dv, last) == dv > last + 1

\* execute_burn, lines 260-265: the first read and the first loop test
EbEnter ==
    /\ en_pc = "burn"
    /\ phases' = Append(phases, "burn")
    /\ \E d \in DvLevels :
        /\ dv_' = d
        /\ last_dv' = d
        /\ en_pc' = IF Remaining(d) THEN "eb_stage" ELSE "eb_end"
    /\ reads' = 1
    /\ stage_calls' = 0
    /\ UNCHANGED <<burn_time, exCall, exAlign>>
    /\ UNCHANGED veVars
    /\ NoStaging
    /\ ExFrame

\* line 266, auto_stage (148-157): the call up to the test that decides on
\* staging
EbAutoStage ==
    /\ en_pc = "eb_stage"
    /\ stage_calls' = stage_calls + 1
    /\ threshold' = IF threshold < -10 THEN Threshold(thrust) ELSE threshold
    /\ en_pc' = IF Below(thrust, threshold') THEN "eb_staging"
                ELSE "eb_throttle"
    /\ UNCHANGED <<thrust, stages_left>>
    /\ UNCHANGED <<dv_, last_dv, reads>>
    /\ UNCHANGED <<burn_time, phases, exCall, exAlign>>
    /\ UNCHANGED veVars
    /\ ExFrame

\* auto_stage (158-163) inside execute_burn: one pass of `while True`
EbActivate ==
    /\ en_pc = "eb_staging"
    /\ \E v \in ThrustLevels :
        /\ ActivateNextStage(v)
        /\ IF HasThrust(thrust')
           THEN /\ threshold' = Threshold(thrust')
                /\ en_pc' = "eb_throttle"
           ELSE UNCHANGED <<threshold, en_pc>>
    /\ UNCHANGED <<burn_time, phases, exCall, exAlign, exBurn>>
    /\ UNCHANGED veVars
    /\ ExFrame

\* The throttle without the lower clamp: min(dv_ / engine_dv, 1).
ThrottleForUnclamped(dv, t, m) ==
    FracMin([n |-> dv * m, d |-> 100 * t], Full)

\* line 269: max(min(dv_ / engine_dv, 1), 0.01) with
\* engine_dv = available_thrust / mass, for t > 0
ThrottleFor(dv, t, m) ==
    FracMax(FracMin([n |-> dv * m, d |-> 100 * t], Full), Hundredth)

\* lines 267-270: the throttle command of one pass
EbThrottle ==
    /\ en_pc = "eb_throttle"
    /\ IF thrust > 0
       THEN throttle' = ThrottleFor(dv_, thrust, mass)
       ELSE UNCHANGED throttle
    /\ last_dv' = dv_
    /\ en_pc' = "eb_read"
    /\ UNCHANGED <<dv_, reads, stage_calls>>
    /\ UNCHANGED <<burn_time, phases, exCall, exAlign>>
    /\ UNCHANGED <<nodes, next_id, ut, sas, sas_mode, ap_engaged, mass>>
    /\ NoStaging
    /\ ExFrame

\* lines 271-273 and 265: the next read, the overshoot test and the loop
\* test.  While the vessel burns its engines may run dry.
EbRead ==
    /\ en_pc = "eb_read"
    /\ reads < MaxReads
    /\ reads' = reads + 1
    /\ \E d \in DvLevels :
        /\ dv_' = d
        /\ en_pc' = IF Overshoot(d, last_dv) THEN "eb_end"
                    ELSE IF Remaining(d) THEN "eb_stage" ELSE "eb_end"
    /\ \E t \in {thrust, 0} : thrust' = t
    /\ UNCHANGED <<threshold, stages_left>>
    /\ UNCHANGED <<last_dv, stage_calls>>
    /\ UNCHANGED <<burn_time, phases, exCall, exAlign>>
    /\ UNCHANGED veVars
    /\ ExFrame

\* The return of execute_burn without the throttle command.
EbEndLeavesThrottle ==
    /\ en_pc = "eb_end"
    /\ phases' = Append(phases, "zero")
    /\ UNCHANGED throttle
    /\ en_pc' = "remove"
    /\ dv_' = 0
    /\ last_dv' = 0
    /\ UNCHANGED <<reads, stage_calls>>
    /\ UNCHANGED <<burn_time, exCall, exAlign>>
    /\ UNCHANGED <<nodes, next_id, ut, sas, sas_mode, ap_engaged, mass>>
    /\ NoStaging
    /\ ExFrame

\* line 274: throttle = 0.0, and execute_burn returns
EbEnd ==
    /\ en_pc = "eb_end"
    /\ phases' = Append(phases, "zero")
    /\ throttle' = Zero
    /\ en_pc' = "remove"
    /\ dv_' = 0
    /\ last_dv' = 0
    /\ UNCHANGED <<reads, stage_calls>>
    /\ UNCHANGED <<burn_time, exCall, exAlign>>
    /\ UNCHANGED <<nodes, next_id, ut, sas, sas_mode, ap_engaged, mass>>
    /\ NoStaging
    /\ ExFrame

\* line 286: node.remove(), and execute_next_node returns
EnRemove ==
    /\ en_pc = "remove"
    /\ phases' = Append(phases, "remove")
    /\ nodes' = RemoveNode(nodes, node)
    /\ en_pc' = "returned"
    /\ UNCHANGED <<burn_time, exCall, exAlign, exBurn>>
    /\ UNCHANGED <<next_id, throttle, ut, sas, sas_mode, ap_engaged, mass>>
    /\ NoStaging
    /\ ExFrame

-----------------------------------------------------------------------------
\* The planner score functions under hill_climb: score_eccenticity
\* (src/circularise.py:14-32) and the score_function of score_inclination
\* (src/krpcutils.py:535-552).  The game's prediction of the orbit after the
\* node (node.orbit.eccentricity, node.orbit.inclination) is the score
\* function of the run applied to the burn value the node carries.

\* Times at which an evaluation places its node, in half seconds
PlanTimes == {30, 100}

PlanInputs ==
    {[init |-> <<0>>, fn |-> [kind |-> k, t |-> t]] :
        k \in Kinds, t \in Targets1}

PlInitWith(p, t) ==
    /\ planner = p
    /\ target_time = t
    /\ transient = 0
    /\ pl_pc = "removed"
    /\ ev_for = 0
    /\ plan_nodes = nodes

\* vessel.control.add_node: the node takes its place in time order
InsertNode(ns, n) ==
    SelectSeq(ns, LAMBDA x : x.ut <= n.ut) \o <<n>>
        \o SelectSeq(ns, LAMBDA x : x.ut > n.ut)

\* add_node (src/krpcutils.py:290-304): the node made from a list of one to
\* four values
add_node(id, d) ==
    [id |-> id,
     ut |-> d[1],
     prograde |-> IF Len(d) > 1 THEN d[2] ELSE 0,
     radial |-> IF Len(d) > 2 THEN d[3] ELSE 0,
     normal |-> IF Len(d) > 3 THEN d[4] ELSE 0]

\* The list each score function hands to add_node for the vector d
NodeData(d) ==
    IF planner = "eccentricity" THEN <<target_time, d[1]>>
    ELSE <<target_time, 0, 0, d[1]>>

\* The burn value of node n that the score depends on
BurnValue(n) == IF planner = "eccentricity" THEN n.prograde ELSE n.normal

\* hill_climb is about to call score_function (lines 20 and 44)
EvalDue ==
    \/ hc_pc = "call"
    \/ hc_pc = "score" /\ cand_i <= Len(candidates)

\* The vector handed to score_function
EvalArg == IF hc_pc = "call" THEN heap[data] ELSE heap[candidates[cand_i]]

\* An evaluation has begun and hill_climb has not got its result
InEval == ev_for = evals + 1

\* Everything of the planner's evaluations left alone by a step of
\* hill_climb, execute_next_node and auto_stage are not running
PlFrame == UNCHANGED <<stVars, exVars, mvVars, auxVars>>

\* circularise.py:24-29, krpcutils.py:545: the evaluation adds its node
PlAdd ==
    /\ ~InEval
    /\ EvalDue
    /\ nodes' = InsertNode(nodes, add_node(next_id, NodeData(EvalArg)))
    /\ transient' = next_id
    /\ next_id' = next_id + 1
    /\ ev_for' = evals + 1
    /\ pl_pc' = "added"
    /\ UNCHANGED <<planner, target_time, plan_nodes>>
    /\ UNCHANGED <<throttle, ut, sas, sas_mode, ap_engaged, mass>>
    /\ UNCHANGED hcVars
    /\ PlFrame

\* circularise.py:30, krpcutils.py:546-548: the orbit after the node is
\* read and the score computed
PlRead ==
    /\ InEval
    /\ pl_pc = "added"
    /\ pl_pc' = "read"
    /\ UNCHANGED <<planner, target_time, transient, ev_for, plan_nodes>>
    /\ UNCHANGED veVars
    /\ UNCHANGED hcVars
    /\ PlFrame

\* The same lines when reading the orbit raises: the exception leaves the
\* score function (no try/finally) and hill_climb
PlReadFails ==
    /\ InEval
    /\ pl_pc = "added"
    /\ HcStartFails \/ HcScoreFails

\* circularise.py:31, krpcutils.py:549: node.remove()
PlRemove ==
    /\ InEval
    /\ pl_pc = "read"
    /\ nodes' = RemoveNode(nodes, transient)
    /\ transient' = 0
    /\ pl_pc' = "removed"
    /\ UNCHANGED <<planner, target_time, ev_for, plan_nodes>>
    /\ UNCHANGED <<next_id, throttle, ut, sas, sas_mode, ap_engaged, mass>>
    /\ UNCHANGED hcVars
    /\ PlFrame

\* circularise.py:32, krpcutils.py:550: the score is returned, and
\* hill_climb goes on with it (hillclimb.py:20-23 and 44-48)
PlReturn ==
    /\ InEval
    /\ pl_pc = "removed"
    /\ HcStart \/ HcScore

\* The steps of hill_climb between two evaluations
PlClimb ==
    /\ ~InEval
    /\ HcWhile \/ HcEndFor \/ HcNextStep \/ HcReturn

-----------------------------------------------------------------------------
\* The callers of hill_climb: do_circularisation (src/circularise.py:34-53)
\* and inclination_change (src/krpcutils.py:554-572)

\* Attributes Circularise.__init__ gives an instance (lines 10-12)
CircAttrs == {"conn", "utils", "logger"}

\* Target inclinations, in thousandths of a degree
Inclinations == {0, 28000, 28648, 29000}

\* Values of vessel.orbit.inclination, in thousandths of a radian
\* (0.5 rad is 28.648 degrees)
OrbitInclinations == {0, 500}

\* (an_time, dn_time), in half seconds
NodeTimes == {<<30, 100>>, <<100, 30>>}

MvInitWith(f, i, o, nt) ==
    /\ mv_pc = "call"
    /\ in_flight = f
    /\ inclination = i
    /\ orbit_inclination = o
    /\ node_times = nt
    /\ node_time = 0
    /\ mv_log = <<>>

\* No caller: hill_climb, auto_stage or execute_next_node on their own
MvNone == MvInitWith(TRUE, 0, 0, <<0, 0>>)

\* The steps of hill_climb and of its score function, none failing
Climb ==
    /\ mv_pc = "climb"
    /\ PlAdd \/ PlRead \/ PlRemove \/ PlReturn \/ PlClimb

\* circularise.py:41-44 and 52-53: the test on the vessel
DcCall ==
    /\ mv_pc = "call"
    /\ IF in_flight
       THEN /\ mv_pc' = "climb"
            /\ mv_log' = Append(mv_log, "Circularising orbit")
       ELSE /\ mv_pc' = "returned"
            /\ mv_log' = mv_log \o <<"Circularising orbit",
                                     "No vessel to circularise">>
    /\ UNCHANGED <<in_flight, inclination, orbit_inclination, node_times,
                   node_time>>
    /\ UNCHANGED <<hcVars, stVars, veVars, exVars, plVars, auxVars>>

\* circularise.py:44-51: hill_climb has returned; the argument of add_node
\* reads self.vessel, an attribute the instance must have
DcCommit ==
    /\ mv_pc = "climb"
    /\ hc_pc = "done"
    /\ IF "vessel" \in CircAttrs
       THEN /\ nodes' = InsertNode(nodes,
                            add_node(next_id,
                                     <<target_time, heap[result][1]>>))
            /\ next_id' = next_id + 1
            /\ mv_pc' = "execute"
       ELSE /\ UNCHANGED <<nodes, next_id>>
            /\ mv_pc' = "raised"
    /\ UNCHANGED <<in_flight, inclination, orbit_inclination, node_times,
                   node_time, mv_log>>
    /\ UNCHANGED <<throttle, ut, sas, sas_mode, ap_engaged, mass>>
    /\ UNCHANGED <<hcVars, stVars, exVars, plVars, auxVars>>

\* The comparison made on the radians, without math.degrees.
ExceedsRadians(deg, rad) == deg > rad

\* `inclination > math.degrees(self.vessel.orbit.inclination)`: deg is in
\* thousandths of a degree, rad in thousandths of a radian, and
\* math.degrees multiplies by 180 / pi (pi taken as 355 / 113)
ExceedsDegrees(deg, rad) == deg * 355 > rad * 180 * 113

\* krpcutils.py:560-570: the choice of the node time, and score_inclination
\* called with it
IcCall ==
    /\ mv_pc = "call"
    /\ node_time' = IF ExceedsDegrees(inclination, orbit_inclination)
                    THEN node_times[2] ELSE node_times[1]
    /\ target_time' = node_time'
    /\ mv_pc' = "climb"
    /\ mv_log' = Append(mv_log, "Changing orbit inclination")
    /\ UNCHANGED <<in_flight, inclination, orbit_inclination, node_times>>
    /\ UNCHANGED <<planner, transient, pl_pc, ev_for, plan_nodes>>
    /\ UNCHANGED <<hcVars, stVars, veVars, exVars, auxVars>>

\* krpcutils.py:571-572: hill_climb has returned; the node is added
IcCommit ==
    /\ mv_pc = "climb"
    /\ hc_pc = "done"
    /\ nodes' = InsertNode(nodes,
                    add_node(next_id, <<node_time, 0, 0, heap[result][1]>>))
    /\ next_id' = next_id + 1
    /\ mv_pc' = "returned"
    /\ UNCHANGED <<in_flight, inclination, orbit_inclination, node_times,
                   node_time, mv_log>>
    /\ UNCHANGED <<throttle, ut, sas, sas_mode, ap_engaged, mass>>
    /\ UNCHANGED <<hcVars, stVars, exVars, plVars, auxVars>>

-----------------------------------------------------------------------------
\* log_as and the helpers built on it (src/decorators.py:8-50)

\* The levels of the logging module
NOTSET == 0

DEBUG == 10

INFO == 20

WARNING == 30

ERROR == 40

CRITICAL == 50

\* Levels the decorators set: log_debug, log_info, log_warning, log_error,
\* log_critical, and log_as with one of them
DecoratorLevels == {DEBUG, INFO, WARNING, ERROR, CRITICAL}

\* Levels a logger has before a decorated call
LoggerLevels == {NOTSET, INFO, WARNING}

\* Most decorated calls nested in one another
MaxDepth == 2

NoMessage == [lvl |-> NOTSET, out |-> FALSE]

LgInitWith(l) ==
    /\ lg_level = l
    /\ lg_stack = <<>>
    /\ lg_last = NoMessage
    /\ lg_exc = FALSE

VcInitWith(a) ==
    /\ vc_args = a
    /\ vc_vector = <<>>

AuxNone == LgInitWith(NOTSET) /\ VcInitWith(<<>>)

LgFrame ==
    UNCHANGED <<hcVars, stVars, veVars, exVars, plVars, mvVars, vcVars>>

\* Logger.isEnabledFor: the level of the message against the logger's
\* effective level, which for a logger left at NOTSET is the root logger's
\* (WARNING unless configured)
IsEnabledFor(lvl, l) == lvl >= (IF l = NOTSET THEN WARNING ELSE l)

\* lines 17-18: current_level = logger.level; logger.setLevel(level); then
\* func is called
WrEnterAt(l) ==
    /\ ~lg_exc
    /\ lg_stack' = Append(lg_stack, [current_level |-> lg_level,
                                     level |-> l,
                                     entry |-> lg_level])
    /\ lg_level' = l
    /\ UNCHANGED <<lg_last, lg_exc>>
    /\ LgFrame

\* A call of a decorated function, from outside or from the body of another
WrEnter ==
    /\ Len(lg_stack) < MaxDepth
    /\ \E l \in DecoratorLevels : WrEnterAt(l)

\* logger.debug(...), logger.info(...), ... in a function body or outside
LgLog ==
    /\ ~lg_exc
    /\ \E lvl \in DecoratorLevels :
        lg_last' = [lvl |-> lvl, out |-> IsEnabledFor(lvl, lg_level)]
    /\ UNCHANGED <<lg_level, lg_stack, lg_exc>>
    /\ LgFrame

Top == lg_stack[Len(lg_stack)]

Pop == SubSeq(lg_stack, 1, Len(lg_stack) - 1)

\* The wrapper returning without logger.setLevel(current_level).
WrReturnNoRestore ==
    /\ ~lg_exc
    /\ lg_stack # <<>>
    /\ lg_level' = lg_level
    /\ lg_stack' = Pop
    /\ UNCHANGED <<lg_last, lg_exc>>
    /\ LgFrame

\* lines 19-21: func returns; logger.setLevel(current_level); return
WrReturn ==
    /\ ~lg_exc
    /\ lg_stack # <<>>
    /\ lg_level' = Top.current_level
    /\ lg_stack' = Pop
    /\ UNCHANGED <<lg_last, lg_exc>>
    /\ LgFrame

\* line 19: func raises, or an exception from a call it made passes through
\* it; the wrapper has no try/finally, so the exception leaves the wrapper
\* at once
WrRaise ==
    /\ lg_stack # <<>>
    /\ lg_exc' = TRUE
    /\ lg_stack' = Pop
    /\ UNCHANGED <<lg_level, lg_last>>
    /\ LgFrame

\* The body of a decorated function catches the exception of a call it made
LgCatch ==
    /\ lg_exc
    /\ lg_stack # <<>>
    /\ lg_exc' = FALSE
    /\ UNCHANGED <<lg_level, lg_stack, lg_last>>
    /\ LgFrame

\* hill_climb is decorated with log_debug (src/hillclimb.py:12): the call
HlEnter ==
    /\ lg_stack = <<>>
    /\ hc_pc = "call"
    /\ WrEnterAt(DEBUG)

\* hill_climb returns through the wrapper
HlReturn ==
    /\ hc_pc = "done"
    /\ WrReturn

\* The exception hill_climb propagates leaves the wrapper
HlRaise ==
    /\ hc_pc = "raised"
    /\ WrRaise

-----------------------------------------------------------------------------
\* Vector.__init__ (src/vector.py:14-33)

Scalar(x) == [it |-> FALSE, v |-> <<x>>]

\* A tuple, a list or a Vector with the elements v
Iterable(v) == [it |-> TRUE, v |-> v]

\* Arguments tried: numbers, and iterables of 0 to 4 numbers (one of three
\* numbers stands for a Vector as well)
ArgValues ==
    {Scalar(7), Scalar(-2), Iterable(<<>>), Iterable(<<1>>),
     Iterable(<<1, 2>>), Iterable(<<1, 2, 3>>), Iterable(<<1, 2, 3, 4>>)}

\* Most arguments given to the constructor
MaxArgs == 3

ArgLists == UNION {[1..n -> ArgValues] : n \in 0..MaxArgs}

\* lines 25-30: for a in args: values = values + list(a) when iter(a)
\* succeeds, values.append(a) when it raises TypeError
RECURSIVE Collect(_, _, _)
Collect(values, args, i) ==
    IF i > Len(args) THEN values
    ELSE Collect(IF args[i].it THEN values \o args[i].v
                 ELSE Append(values, args[i].v[1]),
                 args, i + 1)

\* lines 31-32: while len(values) < 3: values.append(0)
RECURSIVE Fill(_)
Fill(values) == IF Len(values) < 3 THEN Fill(Append(values, 0)) ELSE values

\* values kept whole, without the slice.
Whole(values) == values

\* line 33: list(values[:3])
FirstThree(values) == SubSeq(values, 1, IF Len(values) < 3 THEN Len(values)
                                       ELSE 3)

\* Vector(*args)
VcConstruct ==
    /\ vc_vector = <<>>
    /\ vc_vector' = FirstThree(Fill(Collect(<<>>, vc_args, 1)))
    /\ UNCHANGED vc_args
    /\ UNCHANGED <<hcVars, stVars, veVars, exVars, plVars, mvVars, lgVars>>

-----------------------------------------------------------------------------
\* The specifications

\* A run of hill_climb; auto_stage is not called.
Init ==
    /\ HcInit
    /\ StInitWith("krpcutils") /\ thrust = 0 /\ stages_left = 0
    /\ VeInitWith(<<>>, 0, Zero)
    /\ ExInitWith(FALSE)
    /\ PlInitWith("eccentricity", 0)
    /\ MvNone
    /\ AuxNone

Next ==
    \/ HcStart
    \/ HcStartFails
    \/ HcWhile
    \/ HcScore
    \/ HcScoreFails
    \/ HcEndFor
    \/ HcNextStep
    \/ HcReturn

Spec == Init /\ [][Next]_vars

\* Most passes of the inner loop followed within one step
MaxIters == 12

\* Runs of hill_climb whose score function does not raise, among them runs
\* over -d[0]; the interpreter always takes the next step of the function.
InitTerm ==
    /\ \/ HcInit
       \/ \E i \in Inits1 :
            HcInitWith([init |-> i, fn |-> [kind |-> "neg", t |-> <<0>>]])
    /\ StInitWith("krpcutils") /\ thrust = 0 /\ stages_left = 0
    /\ VeInitWith(<<>>, 0, Zero)
    /\ ExInitWith(FALSE)
    /\ PlInitWith("eccentricity", 0)
    /\ MvNone
    /\ AuxNone

NextTerm ==
    \/ HcStart
    \/ iters < MaxIters /\ HcWhile
    \/ HcScore
    \/ HcEndFor
    \/ HcNextStep
    \/ HcReturn

SpecTerm == InitTerm /\ [][NextTerm]_vars /\ WF_vars(NextTerm)

\* Calls of auto_stage while the vessel flies; hill_climb is not called.
InitStage ==
    /\ StInit
    /\ HcInitWith([init |-> <<>>, fn |-> [kind |-> "abs", t |-> <<>>]])
    /\ VeInitWith(<<>>, 0, Zero)
    /\ ExInitWith(FALSE)
    /\ PlInitWith("eccentricity", 0)
    /\ MvNone
    /\ AuxNone

NextStage ==
    \/ EnvThrust
    \/ KuAutoStage
    \/ KuActivate
    \/ LaAutoStage
    \/ LaActivate

SpecStage == InitStage /\ [][NextStage]_vars

\* A call of execute_next_node (src/krpcutils.py); the vessel has flown
\* before or not, so the staging threshold is unset or left from an earlier
\* available thrust of 120.
InitBurn ==
    /\ StInitWith("krpcutils")
    /\ HcInitWith([init |-> <<>>, fn |-> [kind |-> "abs", t |-> <<>>]])
    /\ \E ns \in NodeLists, t \in StartTimes : VeInitWith(ns, t, Full)
    /\ \E u \in BOOLEAN : ExInitWith(u)
    /\ PlInitWith("eccentricity", 0)
    /\ MvNone
    /\ AuxNone

NextBurn ==
    \/ EnCall
    \/ EnBurnTime
    \/ AlStart
    \/ AlSetSasMode
    \/ AlSasPoll
    \/ AlAutoPilot
    \/ AlLoopExit
    \/ AlReturn
    \/ WaWarp
    \/ EnvTick
    \/ WaLoopExit
    \/ EbEnter
    \/ EbAutoStage
    \/ EbActivate
    \/ EbThrottle
    \/ EbRead
    \/ EbEnd
    \/ EnRemove

SpecBurn == InitBurn /\ [][NextBurn]_vars

\* hill_climb over a planner score function, from [0] as do_circularisation
\* and inclination_change call it; the vessel is not burning.
InitPlan ==
    /\ \E in \in PlanInputs : HcInitWith(in)
    /\ StInitWith("krpcutils") /\ thrust = 0 /\ stages_left = 0
    /\ \E ns \in NodeLists : VeInitWith(ns, 0, Zero)
    /\ ExInitWith(FALSE)
    /\ \E p \in {"eccentricity", "inclination"}, t \in PlanTimes :
            PlInitWith(p, t)
    /\ MvNone
    /\ AuxNone

NextPlan ==
    \/ PlAdd
    \/ PlRead
    \/ PlReadFails
    \/ PlRemove
    \/ PlReturn
    \/ PlClimb

SpecPlan == InitPlan /\ [][NextPlan]_vars

\* A call of do_circularisation, with a vessel in flight or not; the game
\* answers every query of the score function.
InitCirc ==
    /\ \E in \in PlanInputs : HcInitWith(in)
    /\ StInitWith("krpcutils") /\ thrust = 0 /\ stages_left = 0
    /\ \E ns \in NodeLists : VeInitWith(ns, 0, Zero)
    /\ ExInitWith(FALSE)
    /\ \E t \in PlanTimes : PlInitWith("eccentricity", t)
    /\ \E f \in BOOLEAN : MvInitWith(f, 0, 0, <<0, 0>>)
    /\ AuxNone

NextCirc ==
    \/ DcCall
    \/ Climb
    \/ DcCommit

SpecCirc == InitCirc /\ [][NextCirc]_vars

\* A call of inclination_change; the score is the distance of the
\* inclination after the node from the target.
InitInc ==
    /\ \E t \in Targets1 :
            HcInitWith([init |-> <<0>>, fn |-> [kind |-> "abs", t |-> t]])
    /\ StInitWith("krpcutils") /\ thrust = 0 /\ stages_left = 0
    /\ \E ns \in {<<>>, <<NodeA>>} : VeInitWith(ns, 0, Zero)
    /\ ExInitWith(FALSE)
    /\ PlInitWith("inclination", 0)
    /\ \E i \in Inclinations, o \in OrbitInclinations, nt \in NodeTimes :
            MvInitWith(TRUE, i, o, nt)
    /\ AuxNone

NextInc ==
    \/ IcCall
    \/ Climb
    \/ IcCommit

SpecInc == InitInc /\ [][NextInc]_vars

\* Nothing but the logger and the decorated calls changes
Parked ==
    /\ HcInitWith([init |-> <<>>, fn |-> [kind |-> "abs", t |-> <<>>]])
    /\ StInitWith("krpcutils") /\ thrust = 0 /\ stages_left = 0
    /\ VeInitWith(<<>>, 0, Zero)
    /\ ExInitWith(FALSE)
    /\ PlInitWith("eccentricity", 0)
    /\ MvNone

\* Calls of decorated functions on one logger, nested, returning or
\* raising, with logging calls in between
InitLog ==
    /\ Parked
    /\ \E l \in LoggerLevels : LgInitWith(l)
    /\ VcInitWith(<<>>)

NextLog ==
    \/ WrEnter
    \/ LgLog
    \/ WrReturn
    \/ WrRaise
    \/ LgCatch

SpecLog == InitLog /\ [][NextLog]_vars

\* A call of the decorated hill_climb (src/hillclimb.py:12-53) over a
\* one-parameter score function that may raise
InitHcLog ==
    /\ \E k \in Kinds, t \in Targets1 :
            HcInitWith([init |-> <<0>>, fn |-> [kind |-> k, t |-> t]])
    /\ StInitWith("krpcutils") /\ thrust = 0 /\ stages_left = 0
    /\ VeInitWith(<<>>, 0, Zero)
    /\ ExInitWith(FALSE)
    /\ PlInitWith("eccentricity", 0)
    /\ MvNone
    /\ \E l \in LoggerLevels : LgInitWith(l)
    /\ VcInitWith(<<>>)

NextHcLog ==
    \/ HlEnter
    \/ lg_stack # <<>> /\ Next
    \/ HlReturn
    \/ HlRaise

SpecHcLog == InitHcLog /\ [][NextHcLog]_vars

\* A call of Vector(...) with up to MaxArgs arguments
InitVec ==
    /\ Parked
    /\ LgInitWith(NOTSET)
    /\ \E a \in ArgLists : VcInitWith(a)

NextVec == VcConstruct

SpecVec == InitVec /\ [][NextVec]_vars

-----------------------------------------------------------------------------
\* Properties of hill_climb

N == Len(init_data)

InitialScore == score_function(score_fn, init_data)

\* Score of the i-th candidate of the current inner iteration
CandScore(i) == score_function(score_fn, heap[candidates[i]])

\* The for loop over the candidates has scored every one of them
EndOfFor == hc_pc = "score" /\ cand_i > Len(candidates)

\* C1: the score of the returned vector is at most the score of the initial
\* vector; no step of the search raises current_score, and current_score is
\* always the score of current_best.
C1_ScoreNeverIncreases ==
    [][ /\ current_score # <<>> => LessEq(current_score', current_score)
        /\ current_best' # 0 =>
              current_score' = score_function(score_fn, heap'[current_best'])
        /\ hc_pc' = "done" =>
              LessEq(score_function(score_fn, heap'[result']), InitialScore)
      ]_vars

C1_Witness ==
    /\ hc_pc = "done"
    /\ N = 1
    /\ score_fn.kind = "ripple"
    /\ Less(score_function(score_fn, heap[result]), InitialScore)

\* C2: one parameter, initial vector [0], score |d[0] - t| or (d[0] - t)^2:
\* the value returned is within 0.001 of t.
C2_OneParameterConverges ==
    (/\ hc_pc = "done"
     /\ init_data = <<0>>
     /\ score_fn.kind \in {"abs", "sq"})
    => Abs(heap[result][1] - score_fn.t[1]) <= 1

C2_Witness ==
    /\ hc_pc = "done"
    /\ init_data = <<0>>
    /\ score_fn = [kind |-> "abs", t |-> <<3700>>]
    /\ heap[result] = <<3700>>

\* C3: two parameters, initial vector [0, 0], score (d[0]-2)^2 + (d[1]+1)^2:
\* both components returned are within 0.001 of 2 and of -1.
C3_TwoParametersConverge ==
    (/\ hc_pc = "done"
     /\ init_data = <<0, 0>>
     /\ score_fn = [kind |-> "sq", t |-> <<2000, -1000>>])
    => /\ Abs(heap[result][1] - 2000) <= 1
       /\ Abs(heap[result][2] + 1000) <= 1

C3_Witness ==
    /\ hc_pc = "done"
    /\ init_data = <<0, 0>>
    /\ score_fn = [kind |-> "sq", t |-> <<2000, -1000>>]
    /\ heap[result] = <<2000, -1000>>

\* Some candidate among the first m scores lower than current_score did when
\* the candidates were built
SomeImproves(m) == \E i \in 1..m : Less(CandScore(i), iter_score)

\* The first candidate in generation order that improves on that score
FirstImproving ==
    CHOOSE i \in 1..Len(candidates) :
        /\ Less(CandScore(i), iter_score)
        /\ \A j \in 1..(i - 1) : ~Less(CandScore(j), iter_score)

\* The first candidate among the first m that has their lowest score
FirstLowest(m) ==
    CHOOSE i \in 1..m :
        /\ \A j \in 1..m : LessEq(CandScore(i), CandScore(j))
        /\ \A j \in 1..(i - 1) : Less(CandScore(i), CandScore(j))

\* C4 as stated: when the candidates of an inner iteration have been scored
\* and some improves, current_best is the first improving candidate in
\* generation order.
C4_FirstImprovingAdopted ==
    (EndOfFor /\ SomeImproves(Len(candidates)))
    => current_best = candidates[FirstImproving]

\* C4 amended: the for loop scores every candidate and has no break; after m
\* candidates current_best is the lowest-scoring of them if one improves (the
\* first in generation order among equals), else it is unchanged; the inner
\* loop repeats exactly when the score was lowered.
C4_LowestAdopted ==
    /\ hc_pc = "score" =>
          LET m == cand_i - 1
          IN  IF SomeImproves(m)
              THEN /\ current_best = candidates[FirstLowest(m)]
                   /\ current_score = CandScore(FirstLowest(m))
                   /\ improved
              ELSE /\ current_best = iter_best
                   /\ current_score = iter_score
                   /\ ~improved
    /\ (hc_pc = "while" /\ iters > 0) =>
          (improved <=> Less(current_score, iter_score))

C4_Witness ==
    /\ EndOfFor
    /\ SomeImproves(Len(candidates))
    /\ current_best # candidates[FirstImproving]
    /\ Less(current_score, CandScore(FirstImproving))

\* base with delta added on the dimensions of subset number k
Shifted(base, k, delta) ==
    [i \in 1..Len(base) |->
        base[i] + (IF (k \div Pow2(i - 1)) % 2 = 1 THEN delta ELSE 0)]

\* C5: for N >= 1 an inner iteration builds 2 * (2^N - 1) candidates from
\* current_best, subset by subset in increasing index, the increased one
\* before the decreased one, and scores each of them once, in that order.
C5_CandidatesOfAnIteration ==
    (hc_pc = "score" /\ N >= 1) =>
        /\ Len(candidates) = 2 * (Pow2(N) - 1)
        /\ \A k \in 1..(Pow2(N) - 1) :
              /\ heap[candidates[2 * k - 1]]
                    = Shifted(iter_base, k, Steps[step_i])
              /\ heap[candidates[2 * k]]
                    = Shifted(iter_base, k, -Steps[step_i])
        /\ cand_i = 1 => heap[current_best] = iter_base
        /\ Len(iter_evals) = cand_i - 1
        /\ \A i \in 1..Len(iter_evals) :
              iter_evals[i] = heap[candidates[i]]

C5_Witness ==
    /\ EndOfFor
    /\ N = 2
    /\ Len(iter_evals) = 6
    /\ step_i = 3

\* C6: with an empty vector no candidate is ever built, score_function is
\* called on the initial vector only, every step makes one pass of the inner
\* loop, and the empty vector is returned.
C6_EmptyVector ==
    N = 0 =>
        /\ candidates = <<>>
        /\ evals <= 1
        /\ iters <= 1
        /\ hc_pc = "done" => heap[result] = <<>>

C6_Witness ==
    /\ N = 0
    /\ hc_pc = "done"
    /\ evals = 1
    /\ step_i = Len(Steps)

\* C7: once score_function has raised, hill_climb has left with the
\* exception: nothing is returned and no further step is taken (no retry, no
\* further candidate).
C7_FailurePropagates ==
    [][ /\ ~failed
        /\ failed' => (hc_pc' = "raised" /\ result' = 0) ]_vars

C7_Witness ==
    /\ failed
    /\ hc_pc = "raised"
    /\ evals > 1
    /\ result = 0

\* C8: the caller's list keeps its contents; the candidates are list objects
\* of their own, distinct from each other, from the caller's list and from
\* current_best; the list that was current_best when they were built keeps
\* its contents when a candidate is adopted.
C8_NoInPlaceChange ==
    /\ heap[data] = init_data
    /\ current_best # data
    /\ hc_pc = "score" =>
          /\ \A i \in 1..Len(candidates) :
                /\ candidates[i] \notin {data, iter_best}
                /\ \A j \in 1..Len(candidates) :
                      i # j => candidates[i] # candidates[j]
          /\ heap[iter_best] = iter_base
    /\ hc_pc = "done" => result # data

C8_Witness ==
    /\ hc_pc = "done"
    /\ heap[result] # init_data
    /\ heap[data] = init_data
    /\ N = 2

\* The score sc is the score of v, and no vector got from v by adding step,
\* or by subtracting it, on a non-empty subset of the dimensions scores
\* strictly lower
FixedPoint(v, step, sc) ==
    /\ score_function(score_fn, v) = sc
    /\ \A k \in 1..(Pow2(Len(v)) - 1), sign \in {1, -1} :
          ~Less(score_function(score_fn, Shifted(v, k, sign * step)), sc)

\* The inner loop of a step has finished in this step of the run
StepEnds ==
    \/ step_i >= 1 /\ step_i' # step_i
    \/ hc_pc # "done" /\ hc_pc' = "done"

\* C27: every pass of the inner loop that is followed by another has
\* strictly lowered current_score; the steps are taken one after the other
\* in the order 100, 10, 1, 0.1, 0.01, 0.001, each once, whether or not the
\* step before improved anything, and the result is returned after the
\* last; over the scores that are bounded below the call ends, and over
\* -d[0] it never leaves the inner loop of the first step, every pass of
\* which improves.
C27_Terminates ==
    /\ [][/\ (EndOfFor /\ improved) => Less(current_score, iter_score)
          /\ step_i' # step_i =>
                /\ step_i' = step_i + 1
                /\ step_i >= 1 => hc_pc = "while" /\ ~improved
                /\ step_i' > 1 => Steps[step_i'] * 10 = Steps[step_i]
          /\ hc_pc' = "done" =>
                /\ step_i' = 6
                /\ Steps[6] = 1
                /\ Steps[1] = 100 * Unit
                /\ result' = current_best
          /\ score_fn.kind # "neg" => iters < MaxIters
          /\ score_fn.kind = "neg" =>
                /\ step_i' <= 1
                /\ hc_pc' # "done"
                /\ EndOfFor /\ N > 0 => improved]_vars
    /\ <>(score_fn.kind = "neg" \/ hc_pc = "done")

\* A run over the rippled score has returned after a last step that
\* improved nothing (the inner loop of the last step ran once)
C27_Witness ==
    /\ hc_pc = "done"
    /\ score_fn.kind = "ripple"
    /\ step_i = 6
    /\ iters = 1
    /\ evals > 20

\* C28: when the inner loop finishes for a step, current_score is the score
\* of current_best and no candidate built from current_best with that step
\* scores strictly lower; the vector returned cannot be improved by a
\* candidate of the last step, 0.001.
C28_FixedPointOfStep ==
    [][/\ StepEnds => FixedPoint(heap[current_best], Steps[step_i],
                                 current_score)
       /\ hc_pc' = "done" => FixedPoint(heap'[result'], 1, current_score')
      ]_vars

\* A two-parameter run over the rippled score has gone through the six
\* steps and returned a vector that is not the one it was given
C28_Witness ==
    /\ hc_pc = "done"
    /\ N = 2
    /\ step_i = 6
    /\ score_fn.kind = "ripple"
    /\ heap[result] # init_data

-----------------------------------------------------------------------------
\* Properties of auto_stage

RECURSIVE Values(_)
Values(ev) ==
    IF ev = <<>> THEN <<>> ELSE <<Head(ev).v>> \o Values(Tail(ev))

\* The thrust values observed so far, in order
Observed == Values(SelectSeq(events, LAMBDA x : x.e = "obs"))

\* Number of calls of activate_next_stage in a history
Stagings(ev) == Len(SelectSeq(ev, LAMBDA x : x.e = "stage"))

\* C9: with thrust observed as 100, 100, 5, 120 from an unset threshold, the
\* threshold is first 90; no stage is activated before 5 is observed; once 5
\* is observed the call is bound to activate; the one activation comes
\* between the observations 5 and 120; the threshold ends at 110.
C9_StagingScenario ==
    /\ Observed = <<100>> =>
          (threshold = 90 /\ Stagings(events) = 0 /\ as_pc = "idle")
    /\ Observed = <<100, 100>> =>
          (threshold = 90 /\ Stagings(events) = 0 /\ as_pc = "idle")
    /\ Observed = <<100, 100, 5>> =>
          (threshold = 90 /\ Stagings(events) = 0 /\ as_pc = "loop")
    /\ Observed = <<100, 100, 5, 120>> =>
          /\ events = <<Obs(100), Obs(100), Obs(5), Staged, Obs(120)>>
          /\ threshold = 110
          /\ as_pc = "idle"

C9_Witness ==
    /\ variant = "krpcutils"
    /\ events = <<Obs(100), Obs(100), Obs(5), Staged, Obs(120)>>
    /\ threshold = 110
    /\ as_pc = "idle"

\* A step that is the first part of a call of auto_stage
CallStep == as_pc = "idle" /\ events' # events

\* C10: a stage is activated only inside a call that observed thrust
\* strictly below the threshold; the call goes on activating while thrust is
\* not positive, and returns with the threshold 10 below the positive thrust
\* it then observed; a call that observes thrust not below the threshold
\* activates nothing and leaves a threshold set by an earlier call as it was.
C10_StagingRule ==
    [][ /\ Stagings(events') # Stagings(events) => as_pc = "loop"
        /\ (CallStep /\ as_pc' = "loop") =>
              /\ thrust < threshold'
              /\ events # <<>> => threshold' = threshold
        /\ (CallStep /\ as_pc' = "idle") =>
              /\ ~(thrust < threshold')
              /\ Stagings(events') = Stagings(events)
              /\ events # <<>> => threshold' = threshold
        /\ as_pc = "loop" =>
              /\ Stagings(events') = Stagings(events) + 1
              /\ as_pc' = "loop" => (thrust' <= 0 /\ threshold' = threshold)
              /\ as_pc' = "idle" =>
                    /\ thrust' > 0
                    /\ threshold' = thrust' - 10
                    /\ threshold' > -10
        /\ (as_pc = "idle" /\ ~CallStep) => threshold' = threshold
      ]_vars

C10_Witness ==
    /\ as_pc = "idle"
    /\ variant = "launcher"
    /\ \E i \in 1..(Len(events) - 3) :
          /\ events[i] = Staged
          /\ events[i + 1] = Obs(0)
          /\ events[i + 2] = Staged
          /\ events[i + 3].v > 0
          /\ threshold = events[i + 3].v - 10

\* The call has activated a stage, found no thrust, and the vessel has no
\* stage left
StagedInVain ==
    /\ as_pc = "loop"
    /\ stages_left = 0
    /\ Len(events) >= 2
    /\ events[Len(events) - 1] = Staged

\* C11: a call of auto_stage ends; once it has staged in vain and no stage
\* is left it leaves its loop (signalling StagingExhausted) instead of
\* activating again and staying in the loop.
C11_StagingEnds == [][StagedInVain => as_pc' # "loop"]_vars

-----------------------------------------------------------------------------
\* Properties of execute_next_node

NoNodeMessage == "execute_next_node: No Node to execute"

\* C12: execute_next_node called with an empty node list only logs the
\* error "No Node to execute" and returns: it raises nothing, computes no
\* burn time, starts no phase (no alignment, no warp), leaves the vessel
\* (throttle, clock, SAS, autopilot, nodes) and the staging state as they
\* were, and does nothing afterwards.
C12_EmptyPlanOnlyReports ==
    [][(en_pc = "call" /\ Len(nodes) = 0 =>
            /\ en_pc' = "returned"
            /\ errors' = Append(errors, NoNodeMessage)
            /\ phases' = <<>>
            /\ burn_time' = burn_time
            /\ UNCHANGED veVars
            /\ UNCHANGED <<thrust, threshold, stages_left>>)
       /\ (en_pc = "returned" => UNCHANGED vars)]_vars

C12_Witness ==
    /\ en_pc = "returned"
    /\ nodes_at_call = <<>>
    /\ errors = <<NoNodeMessage>>
    /\ throttle = Full

AllPhases == <<"burn_time", "align", "wait", "burn", "zero", "remove">>

\* C13: with a node in the plan execute_next_node goes through burn time,
\* alignment, wait, throttle loop, throttle 0 and removal in that order; a
\* step that changes the node list removes only the first node of the call
\* and is taken with throttle 0; on return throttle is 0 and the node list
\* is the list at the call without its first node.
C13_BurnThenRemove ==
    [][/\ nodes' # nodes =>
            /\ throttle = Zero
            /\ nodes = nodes_at_call
            /\ nodes' = Tail(nodes_at_call)
       /\ en_pc' = "returned" /\ nodes_at_call' # <<>> =>
            /\ phases' = AllPhases
            /\ throttle' = Zero
            /\ nodes' = Tail(nodes_at_call')
            /\ Len(nodes') = Len(nodes_at_call') - 1
       /\ \A i \in 1..Len(phases') : phases'[i] = AllPhases[i]]_vars

C13_Witness ==
    /\ en_pc = "returned"
    /\ nodes_at_call = <<NodeA, NodeB>>
    /\ nodes = <<NodeB>>
    /\ throttle = Zero
    /\ stage_calls > 0
    /\ phases = AllPhases

\* The ratio dv_ / (available_thrust / mass) before the step, as a fraction
Ratio == [n |-> dv_ * mass, d |-> 100 * thrust]

InRange(x) == FracLe(Hundredth, x) /\ FracLe(x, Full)

BurnPcs ==
    {"burn", "eb_stage", "eb_staging", "eb_throttle", "eb_read", "eb_end"}

\* C14: the throttle command inside the loop of execute_burn (given when
\* available thrust is positive) sets a value in [0.01, 1]: 0.01 when
\* dv_ / (available_thrust / mass) is below 0.01, 1 when it is above 1, and
\* the ratio itself in between; any other change of throttle during
\* execute_burn is the final assignment of 0 after the loop.
C14_ThrottleClamped ==
    [][/\ en_pc = "eb_throttle" /\ thrust > 0 =>
            /\ InRange(throttle')
            /\ FracLt(Ratio, Hundredth) => FracEq(throttle', Hundredth)
            /\ FracLt(Full, Ratio) => FracEq(throttle', Full)
            /\ InRange(Ratio) => FracEq(throttle', Ratio)
       /\ en_pc = "eb_throttle" /\ ~(thrust > 0) => throttle' = throttle
       /\ en_pc \in BurnPcs /\ en_pc # "eb_throttle" /\ throttle' # throttle =>
            /\ en_pc = "eb_end"
            /\ throttle' = Zero]_vars

\* A pass of the loop has asked for less than 0.01 and set 0.01
C14_Witness ==
    /\ en_pc = "eb_read"
    /\ thrust > 0
    /\ last_dv * mass * 100 < 100 * thrust
    /\ FracEq(throttle, Hundredth)
    /\ throttle # Full

LoopPcs == {"eb_stage", "eb_staging", "eb_throttle", "eb_read"}

\* C15: after a read in the loop of execute_burn the loop is left exactly
\* when the value read is <= 0.01 or exceeds the previous value by more
\* than 0.01; it is then left at once, with no further call of auto_stage
\* and no throttle command, nothing is raised and throttle is set to 0.
\* Otherwise the next pass begins, and every pass begins by calling
\* auto_stage.  The loop is left in no other way.
C15_LoopExit ==
    [][/\ en_pc = "eb_read" =>
            IF dv_' <= 1 \/ dv_' > last_dv + 1
            THEN /\ en_pc' = "eb_end"
                 /\ stage_calls' = stage_calls
                 /\ throttle' = throttle
            ELSE en_pc' = "eb_stage"
       /\ en_pc = "burn" => en_pc' = IF dv_' <= 1 THEN "eb_end" ELSE "eb_stage"
       /\ en_pc = "eb_stage" =>
            /\ stage_calls' = stage_calls + 1
            /\ en_pc' \in {"eb_staging", "eb_throttle"}
       /\ en_pc \in LoopPcs /\ en_pc' \notin LoopPcs => en_pc = "eb_read"
       /\ en_pc = "eb_end" =>
            /\ throttle' = Zero
            /\ en_pc' = "remove"
            /\ UNCHANGED <<thrust, threshold, stages_left, stage_calls>>
       /\ en_pc \in BurnPcs => en_pc' # "raised"]_vars

\* The loop has been left on an overshoot, after a pass that staged and
\* set the throttle
C15_Witness ==
    /\ en_pc = "eb_end"
    /\ dv_ > last_dv + 1
    /\ dv_ > 1
    /\ reads = 2
    /\ stage_calls = 1
    /\ throttle # Zero

\* C16: the throttle loop does not start before the clock has reached
\* node.ut - burn_time / 2: the warp ends at or after 5 seconds before that
\* instant (and before the instant, when called earlier than that),
\* wait_until_time returns only with the clock at or past the instant, and
\* execute_burn starts only from that return.
C16_BurnNotEarly ==
    [][/\ en_pc = "wait" =>
            /\ en_pc' = "wait_poll"
            /\ ut' >= StartTime - 2 * LeadTime
            /\ ut < StartTime - 2 * LeadTime => ut' < StartTime
       /\ en_pc' = "burn" =>
            /\ en_pc = "wait_poll"
            /\ ut' >= StartTime'
       /\ en_pc' \in BurnPcs =>
            /\ ut' >= StartTime'
            /\ \E i \in 1..Len(phases') : phases'[i] = "wait"]_vars

\* The call came early, the warp stopped short of the start time and the
\* burn begins exactly at it
C16_Witness ==
    /\ en_pc = "burn"
    /\ phases = <<"burn_time", "align", "wait">>
    /\ ut = StartTime
    /\ burn_time = 20

\* align_with_node has returned
Aligned == "wait" \in {phases[i] : i \in 1..Len(phases)} \/ en_pc = "wait"

\* SAS was requested and set_sas_mode could set the maneuver mode
SasSettable == use_sas /\ sas_result = "True"

\* C17 as stated: a call of align_with_node uses one mechanism only; with
\* SAS requested and the mode set it polls the facing vector and does not
\* engage the autopilot, and the autopilot is engaged only when SAS is not
\* requested or the mode cannot be set.
C17_OneMechanism ==
    Aligned =>
        /\ sas_polled # ap_used
        /\ SasSettable => sas_polled /\ ~ap_used
        /\ ap_used => ~SasSettable

\* C17: a call of align_with_node polls the facing vector under SAS exactly
\* when SAS is requested and the maneuver mode can be set, and every call,
\* that one included, then runs the autopilot loop: it returns with the
\* autopilot engaged and SAS switched off.
C17_SasThenAutoPilot ==
    /\ Aligned =>
        /\ sas_polled <=> SasSettable
        /\ ap_used
        /\ ap_engaged
        /\ ~sas
    /\ sas_polled => SasSettable
    /\ en_pc = "sas_poll" => ~ap_engaged /\ sas /\ ~ap_used

\* SAS has aligned the vessel and the autopilot has been engaged after it
C17_Witness ==
    /\ en_pc = "wait"
    /\ SasSettable
    /\ sas_polled
    /\ ap_used
    /\ ap_engaged
    /\ sas_mode = "maneuver"

\* C18: when set_sas_mode fails it returns False with SAS switched off, and
\* align_with_node raises nothing, reads no facing sample and goes on to
\* the autopilot loop, through which it returns; when set_sas_mode succeeds
\* it returns True with SAS on and the maneuver mode set.
C18_SasFailureFallsBack ==
    [][/\ en_pc = "set_sas" =>
            /\ en_pc' \in {"sas_poll", "autopilot"}
            /\ en_pc' = "autopilot" =>
                /\ sas_result' = "False"
                /\ ~sas'
                /\ sas_mode' = sas_mode
                /\ ~sas_polled'
            /\ en_pc' = "sas_poll" =>
                /\ sas_result' = "True"
                /\ sas'
                /\ sas_mode' = "maneuver"
       /\ sas_result' = "False" =>
            /\ ~sas_polled'
            /\ en_pc' # "raised"
            /\ en_pc' # "sas_poll"
            /\ Aligned' => ap_used' /\ ap_engaged']_vars

\* The mode could not be set and the autopilot has aligned the vessel
C18_Witness ==
    /\ en_pc = "wait"
    /\ use_sas
    /\ sas_result = "False"
    /\ ~sas
    /\ sas_mode = "stability_assist"
    /\ ~sas_polled
    /\ ap_used

\* Angle of v to (0, 1, 0) below 2 degrees, from the tangent: the part of v
\* across the axis is less than tan(2 deg) = 0.0349 of the part along it
NearAxis(v) ==
    /\ v[2] > 0
    /\ (v[1] * v[1] + v[3] * v[3]) * 1000000 < 1219 * v[2] * v[2]

\* C19: the SAS polling loop is left only on a facing sample less than 2
\* degrees from (0, 1, 0), the autopilot loop only when the last error
\* reported is at most 2 in magnitude, and with a larger error the call
\* stays in the loop; align_with_node returns only from the autopilot loop.
C19_AlignedWithin2 ==
    [][/\ en_pc = "sas_poll" /\ en_pc' # "sas_poll" => NearAxis(facing')
       /\ en_pc = "sas_poll" /\ ~NearAxis(facing') => en_pc' = "sas_poll"
       /\ en_pc = "autopilot" /\ en_pc' # "autopilot" =>
            /\ -20 <= error /\ error <= 20
            /\ error' = error
            /\ ap_used
       /\ en_pc = "autopilot" /\ (error < -20 \/ error > 20) =>
            en_pc' = "autopilot"
       /\ en_pc' = "al_return" => en_pc = "autopilot"
       /\ en_pc' = "wait" => en_pc = "al_return"]_vars

\* The autopilot loop has been left on an error of -2 degrees after larger
\* errors
C19_Witness ==
    /\ en_pc = "al_return"
    /\ error = -20
    /\ ap_used
    /\ sas_polled
    /\ facing = <<3, 100, 0>>

-----------------------------------------------------------------------------
\* Properties of the planner score functions

\* The node of the list ns with identity id
NodeIn(ns, id) == CHOOSE x \in {ns[i] : i \in 1..Len(ns)} : x.id = id

\* C20: an evaluation that completes adds one node, carrying the value
\* being scored, and removes that node before it returns, so that between
\* the evaluations of a run in which none has failed, and when hill_climb
\* returns, the node list is the list hill_climb was called with; while an
\* evaluation is in progress the list holds that list and the one node.
C20_NodesRestored ==
    [][/\ ~failed' /\ transient' = 0 => nodes' = plan_nodes'
       /\ hc_pc' = "done" => nodes' = plan_nodes' /\ transient' = 0
       /\ ~InEval /\ InEval' =>
            /\ Len(nodes') = Len(nodes) + 1
            /\ transient' # 0
            /\ NodeIn(nodes', transient') \notin {nodes[i] : i \in 1..Len(nodes)}
            /\ BurnValue(NodeIn(nodes', transient')) = EvalArg[1]
            /\ NodeIn(nodes', transient').ut = target_time
       /\ InEval /\ ~InEval' /\ ~failed' =>
            /\ transient' = 0
            /\ nodes' = plan_nodes
       /\ transient # 0 /\ transient' = 0 =>
            /\ \A i \in 1..Len(nodes') : nodes'[i].id # transient
            /\ Len(nodes') = Len(nodes) - 1
            /\ nodes' = plan_nodes
       /\ transient' # 0 =>
            \E k \in 1..Len(nodes') :
                /\ nodes'[k].id = transient'
                /\ SubSeq(nodes', 1, k - 1)
                      \o SubSeq(nodes', k + 1, Len(nodes')) = plan_nodes']_vars

\* hill_climb has returned after many evaluations that each placed a node
\* between the two nodes of the plan
C20_Witness ==
    /\ hc_pc = "done"
    /\ evals > 20
    /\ next_id = evals + 3
    /\ plan_nodes = <<NodeA, NodeB>>
    /\ nodes = <<NodeA, NodeB>>
    /\ target_time = 100

\* C21: an evaluation that raises after it has added its node removes the
\* node before the exception leaves it, so once hill_climb has propagated a
\* failure the node list is the list hill_climb was called with and no
\* transient node is left in it.
C21_FailedEvalCleansUp ==
    failed =>
        /\ nodes = plan_nodes
        /\ \A i \in 1..Len(nodes) : nodes[i].id # transient

-----------------------------------------------------------------------------
\* Properties of the callers of hill_climb

\* ns is the list base with one node more, carrying ut, prograde, radial
\* and normal as given
OneNodeAdded(ns, base, t, pro, rad, nor) ==
    /\ Len(ns) = Len(base) + 1
    /\ \E k \in 1..Len(ns) :
        /\ ns[k].ut = t
        /\ ns[k].prograde = pro
        /\ ns[k].radial = rad
        /\ ns[k].normal = nor
        /\ SubSeq(ns, 1, k - 1) \o SubSeq(ns, k + 1, Len(ns)) = base

\* C22: with a vessel in flight do_circularisation, once hill_climb has
\* returned over the eccentricity score from [0], commits one node at
\* current time + time to apoapsis with the returned value as prograde and
\* radial and normal 0 and goes on to execute_next_node, and it raises
\* nothing; with no vessel in flight it only logs and returns.
C22_CircularisationCompletes ==
    [][/\ mv_pc = "call" /\ ~in_flight =>
            /\ mv_pc' = "returned"
            /\ UNCHANGED <<hcVars, veVars, plVars>>
       /\ mv_pc = "call" /\ in_flight => mv_pc' = "climb" /\ init_data = <<0>>
       /\ mv_pc = "climb" /\ hc_pc = "done" =>
            /\ mv_pc' = "execute"
            /\ OneNodeAdded(nodes', plan_nodes, target_time,
                            heap[result][1], 0, 0)
       /\ mv_pc' # "raised"]_vars

\* One degree is 1 / 57.2958 radian: rad thousandths of a radian in
\* thousandths of a degree, rounded down
InDegrees(rad) == (rad * 572958) \div 10000

-----------------------------------------------------------------------------
\* Properties of the decorators

\* A decorated call begins, and a decorated call ends, in this step
CallBegins == Len(lg_stack') > Len(lg_stack)

CallEnds == Len(lg_stack') < Len(lg_stack)

\* C24: a decorated function starts with the logger at the decorator's
\* level, whatever the level before; a message logged at that level while
\* the logger is at it is emitted; and when the function returns normally
\* the logger is back at the level it had when that call was made, for
\* nested calls too, each restoring the level found at its own entry.
C24_LevelSetAndRestored ==
    [][/\ CallBegins =>
            /\ lg_level' = lg_stack'[Len(lg_stack')].level
            /\ lg_stack'[Len(lg_stack')].entry = lg_level
       /\ (/\ lg_stack # <<>>
           /\ lg_last' # lg_last
           /\ lg_level = Top.level
           /\ lg_last'.lvl >= Top.level) => lg_last'.out
       /\ CallEnds /\ ~lg_exc' =>
            /\ lg_level' = Top.entry
            /\ lg_stack' = Pop]_vars

\* Inside a call decorated at INFO, made with the logger at WARNING, a DEBUG
\* message has been emitted (by a nested call decorated at DEBUG) and the
\* level is INFO again
C24_Witness ==
    /\ Len(lg_stack) = 1
    /\ lg_stack[1].entry = WARNING
    /\ lg_stack[1].level = INFO
    /\ lg_level = INFO
    /\ lg_last = [lvl |-> DEBUG, out |-> TRUE]
    /\ ~lg_exc

\* C26: the logger is back at the level it had before the call after every
\* call of a decorated function, also when the function raises: when
\* hill_climb, decorated with log_debug, propagates the failure of its
\* score function, the logger's level is the one it had before the call.
C26_LevelRestoredOnRaise == [][CallEnds => lg_level' = Top.entry]_vars

-----------------------------------------------------------------------------
\* Properties of Vector

\* Number of values an argument contributes
Size(a) == IF a.it THEN Len(a.v) ELSE 1

\* Number of values the arguments before the k-th contribute
RECURSIVE Before(_, _)
Before(args, k) ==
    IF k <= 1 THEN 0 ELSE Before(args, k - 1) + Size(args[k - 1])

\* The i-th value of the arguments taken in order, 0 when there are fewer
ValueAt(args, i) ==
    IF \E k \in 1..Len(args) :
            Before(args, k) < i /\ i <= Before(args, k) + Size(args[k])
    THEN LET k == CHOOSE k \in 1..Len(args) :
                    Before(args, k) < i /\ i <= Before(args, k) + Size(args[k])
         IN  args[k].v[i - Before(args, k)]
    ELSE 0

\* C25: a Vector holds three components: the first three of the values of
\* its arguments taken in order, a scalar counting as one value and an
\* iterable as its elements, with 0 for each value missing; values beyond
\* the third are dropped.
C25_ThreeComponents ==
    vc_vector # <<>> =>
        /\ Len(vc_vector) = 3
        /\ \A i \in 1..3 : vc_vector[i] = ValueAt(vc_args, i)

\* Vector(7, (1, 2, 3, 4)) holds 7, 1, 2: the iterable is expanded and the
\* values beyond the third are dropped
C25_Witness ==
    /\ vc_args = <<Scalar(7), Iterable(<<1, 2, 3, 4>>)>>
    /\ vc_vector = <<7, 1, 2>>

====
